---- MODULE Spec2Model ----
(***************************************************************************)
(* Model of deepchem/models/tensorgraph/models/graph_models.py:            *)
(*   - the batch featurisation of WeaveModel.default_generator,            *)
(*     MPNNModel.default_generator and DTNNModel.compute_features_on_batch *)
(*   - the argument validation and model assembly of the constructors of   *)
(*     WeaveModel, DTNNModel, DAGModel, GraphConvModel, MPNNModel and of   *)
(*     the five deprecated *TensorGraph subclasses                         *)
(*   - TrimGraphOutput.call                                                *)
(* Python indices are 0-based and are kept 0-based as VALUES; positions in *)
(* TLA+ sequences are 1-based.  Feature values are abstracted to tags that *)
(* identify the molecule and the atom (pair) they belong to; labels and    *)
(* weights pass through the generators untouched and are not modelled.     *)
(***************************************************************************)
EXTENDS Integers, Sequences, FiniteSets, TLC

VARIABLES dataset, batch_size, epochs, pad_batches, wv, mp, dt, obj, out, dg, gc

vars == <<dataset, batch_size, epochs, pad_batches, wv, mp, dt, obj, out, dg, gc>>

\* ---------------------------------------------------------------- bounds
MaxMols == 2
MaxAtoms == 2
MaxBatch == 2
MaxEpochs == 2
MaxLayers == 2

\* ------------------------------------------------------- numpy / python
Min(a, b) == IF a < b THEN a ELSE b

\* np.arange(n): 0, 1, ..., n-1
Arange(n) == [i \in 1..n |-> i - 1]

\* [v] * n
Repeat(v, n) == [i \in 1..n |-> v]

\* array + scalar
AddScalar(s, c) == [i \in 1..Len(s) |-> s[i] + c]

\* np.meshgrid(x, y) with the default 'xy' indexing: two arrays of shape
\* (len(y), len(x)); the first repeats x along the rows, the second repeats
\* y along the columns.
Meshgrid(x, y) ==
  << [i \in 1..Len(y) |-> [j \in 1..Len(x) |-> x[j]]],
     [i \in 1..Len(y) |-> [j \in 1..Len(x) |-> y[i]]] >>

NCols(M) == IF Len(M) = 0 THEN 0 ELSE Len(M[1])

\* ndarray.flatten(): row-major (C order)
Flatten(M) ==
  [k \in 1..(Len(M) * NCols(M)) |->
     M[((k - 1) \div NCols(M)) + 1][((k - 1) % NCols(M)) + 1]]

\* ndarray.flatten(order='F'): column-major
FlattenF(M) ==
  [k \in 1..(Len(M) * NCols(M)) |->
     M[((k - 1) % Len(M)) + 1][((k - 1) \div Len(M)) + 1]]

\* np.transpose(np.array([a, b])): rows <<a[k], b[k]>>
Transpose2(a, b) == [k \in 1..Len(a) |-> <<a[k], b[k]>>]

\* np.concatenate(list_of_arrays, axis=0)
RECURSIVE Concatenate(_)
Concatenate(arrs) ==
  IF Len(arrs) = 0 THEN <<>> ELSE arrs[1] \o Concatenate(Tail(arrs))

\* ------------------------------------------------------------ molecules
\* A featurised molecule: its position in the dataset and its atom count.
Molecules == [id : 0..(MaxMols - 1), n_atoms : 0..MaxAtoms]

get_num_atoms(mol) == mol.n_atoms

\* (n_atoms, n_atom_feat) array: one row per atom
get_atom_features(mol) == [a \in 1..mol.n_atoms |-> <<mol.id, a - 1>>]

\* (n_atoms, n_atoms, n_pair_feat) array: one feature vector per ordered pair
get_pair_features(mol) ==
  [a \in 1..mol.n_atoms |-> [b \in 1..mol.n_atoms |-> <<mol.id, a - 1, b - 1>>]]

\* np.reshape(P, (rows, n_pair_feat)) of an (n, n, n_pair_feat) array
Reshape(P, rows) == [r \in 1..rows |-> Flatten(P)[r]]

\* ------------------------------------------------- dataset.iterbatches
\* pad_features(batch_size, X_b): the batch repeated cyclically up to
\* batch_size entries.
pad_features(bs, X_b) ==
  IF Len(X_b) = bs THEN X_b
  ELSE [i \in 1..bs |-> X_b[((i - 1) % Len(X_b)) + 1]]

NumBatches(ds, bs) == (Len(ds) + bs - 1) \div bs

\* The b-th batch (b = 1..NumBatches) of one deterministic pass.
IterBatches(ds, bs, pad, b) ==
  LET X_b == SubSeq(ds, (b - 1) * bs + 1, Min(b * bs, Len(ds)))
  IN IF pad THEN pad_features(bs, X_b) ELSE X_b

\* ------------------------------------------- WeaveModel.default_generator
WeaveStart ==
  [atom_feat |-> <<>>, pair_feat |-> <<>>, atom_split |-> <<>>,
   atom_to_pair |-> <<>>, pair_split |-> <<>>, start |-> 0]

WeaveIterSplitOffByOne(st, im, mol) ==
  LET n_atoms == get_num_atoms(mol)
      C0 == Meshgrid(Arange(n_atoms), Arange(n_atoms))[1]
      C1 == Meshgrid(Arange(n_atoms), Arange(n_atoms))[2]
  IN [atom_split |-> st.atom_split \o Repeat(im + 1, n_atoms),
      atom_to_pair |-> Append(st.atom_to_pair,
                              Transpose2(AddScalar(Flatten(C1), st.start),
                                         AddScalar(Flatten(C0), st.start))),
      pair_split |-> st.pair_split \o AddScalar(Flatten(C1), st.start),
      start |-> st.start + n_atoms,
      atom_feat |-> Append(st.atom_feat, get_atom_features(mol)),
      pair_feat |-> Append(st.pair_feat,
                           Reshape(get_pair_features(mol), n_atoms * n_atoms))]

WeaveIterNoOffset(st, im, mol) ==
  LET n_atoms == get_num_atoms(mol)
      C0 == Meshgrid(Arange(n_atoms), Arange(n_atoms))[1]
      C1 == Meshgrid(Arange(n_atoms), Arange(n_atoms))[2]
  IN [atom_split |-> st.atom_split \o Repeat(im, n_atoms),
      atom_to_pair |-> Append(st.atom_to_pair,
                              Transpose2(AddScalar(Flatten(C1), st.start),
                                         Flatten(C0))),
      pair_split |-> st.pair_split \o AddScalar(Flatten(C1), st.start),
      start |-> st.start + n_atoms,
      atom_feat |-> Append(st.atom_feat, get_atom_features(mol)),
      pair_feat |-> Append(st.pair_feat,
                           Reshape(get_pair_features(mol), n_atoms * n_atoms))]

WeaveIterPairSplitC0(st, im, mol) ==
  LET n_atoms == get_num_atoms(mol)
      C0 == Meshgrid(Arange(n_atoms), Arange(n_atoms))[1]
      C1 == Meshgrid(Arange(n_atoms), Arange(n_atoms))[2]
  IN [atom_split |-> st.atom_split \o Repeat(im, n_atoms),
      atom_to_pair |-> Append(st.atom_to_pair,
                              Transpose2(AddScalar(Flatten(C1), st.start),
                                         AddScalar(Flatten(C0), st.start))),
      pair_split |-> st.pair_split \o AddScalar(Flatten(C0), st.start),
      start |-> st.start + n_atoms,
      atom_feat |-> Append(st.atom_feat, get_atom_features(mol)),
      pair_feat |-> Append(st.pair_feat,
                           Reshape(get_pair_features(mol), n_atoms * n_atoms))]

\* One iteration of `for im, mol in enumerate(X_b)`.
WeaveIter(st, im, mol) ==
  LET n_atoms == get_num_atoms(mol)
      C0 == Meshgrid(Arange(n_atoms), Arange(n_atoms))[1]
      C1 == Meshgrid(Arange(n_atoms), Arange(n_atoms))[2]
  IN [atom_split |-> st.atom_split \o Repeat(im, n_atoms),
      atom_to_pair |-> Append(st.atom_to_pair,
                              Transpose2(AddScalar(Flatten(C1), st.start),
                                         AddScalar(Flatten(C0), st.start))),
      pair_split |-> st.pair_split \o AddScalar(Flatten(C1), st.start),
      start |-> st.start + n_atoms,
      atom_feat |-> Append(st.atom_feat, get_atom_features(mol)),
      pair_feat |-> Append(st.pair_feat,
                           Reshape(get_pair_features(mol), n_atoms * n_atoms))]

\* The loop over the molecules im, im+1, ... of X_b.
RECURSIVE WeaveLoop(_, _, _)
WeaveLoop(st, im, X_b) ==
  IF im >= Len(X_b) THEN st
  ELSE WeaveLoop(WeaveIter(st, im, X_b[im + 1]), im + 1, X_b)

\* The `inputs` list yielded for the batch X_b.
WeaveInputs(X_b) ==
  LET st == WeaveLoop(WeaveStart, 0, X_b)
  IN [atom_feat |-> Concatenate(st.atom_feat),
      pair_feat |-> Concatenate(st.pair_feat),
      pair_split |-> st.pair_split,
      atom_split |-> st.atom_split,
      atom_to_pair |-> Concatenate(st.atom_to_pair)]

\* -------------------------------------------- MPNNModel.default_generator
MPNNIterSwapped(st, im, mol) ==
  LET n_atoms == get_num_atoms(mol)
      C0 == Meshgrid(Arange(n_atoms), Arange(n_atoms))[1]
      C1 == Meshgrid(Arange(n_atoms), Arange(n_atoms))[2]
  IN [atom_split |-> st.atom_split \o Repeat(im, n_atoms),
      atom_to_pair |-> Append(st.atom_to_pair,
                              Transpose2(AddScalar(Flatten(C0), st.start),
                                         AddScalar(Flatten(C1), st.start))),
      pair_split |-> st.pair_split \o AddScalar(Flatten(C1), st.start),
      start |-> st.start + n_atoms,
      atom_feat |-> Append(st.atom_feat, get_atom_features(mol)),
      pair_feat |-> Append(st.pair_feat,
                           Reshape(get_pair_features(mol), n_atoms * n_atoms))]

MPNNIter(st, im, mol) ==
  LET n_atoms == get_num_atoms(mol)
      C0 == Meshgrid(Arange(n_atoms), Arange(n_atoms))[1]
      C1 == Meshgrid(Arange(n_atoms), Arange(n_atoms))[2]
  IN [atom_split |-> st.atom_split \o Repeat(im, n_atoms),
      atom_to_pair |-> Append(st.atom_to_pair,
                              Transpose2(AddScalar(Flatten(C1), st.start),
                                         AddScalar(Flatten(C0), st.start))),
      pair_split |-> st.pair_split \o AddScalar(Flatten(C1), st.start),
      start |-> st.start + n_atoms,
      atom_feat |-> Append(st.atom_feat, get_atom_features(mol)),
      pair_feat |-> Append(st.pair_feat,
                           Reshape(get_pair_features(mol), n_atoms * n_atoms))]

RECURSIVE MPNNLoop(_, _, _)
MPNNLoop(st, im, X_b) ==
  IF im >= Len(X_b) THEN st
  ELSE MPNNLoop(MPNNIter(st, im, X_b[im + 1]), im + 1, X_b)

\* The feed_dict yielded for the (already padded) batch X_b; pair_split is
\* computed by the loop but not fed.
MPNNFeed(X_b) ==
  LET st == MPNNLoop(WeaveStart, 0, X_b)
  IN [atom_feat |-> Concatenate(st.atom_feat),
      pair_feat |-> Concatenate(st.pair_feat),
      atom_split |-> st.atom_split,
      atom_to_pair |-> Concatenate(st.atom_to_pair)]

\* ------------------------------ DTNNModel.compute_features_on_batch
\* X_b[im, :, 0]: the first column of the zero-padded Coulomb matrix of a
\* molecule, as booleans (astype(bool)): nonzero for its atoms.
CoulombColumn(mol) == [a \in 1..MaxAtoms |-> a <= mol.n_atoms]

RECURSIVE PySum(_)
PySum(col) ==
  IF Len(col) = 0 THEN 0
  ELSE (IF col[1] THEN 1 ELSE 0) + PySum(Tail(col))

DTNNStart ==
  [atom_membership |-> <<>>, distance_membership_i |-> <<>>,
   distance_membership_j |-> <<>>, start |-> 0]

DTNNIterSwapped(st, im, n) ==
  LET membership == Repeat(Arange(n), n)
      membership_i == Flatten(membership)
      membership_j == FlattenF(membership)
  IN [atom_membership |-> Append(st.atom_membership, Repeat(im, n)),
      distance_membership_i |->
        Append(st.distance_membership_i, AddScalar(membership_i, st.start)),
      distance_membership_j |->
        Append(st.distance_membership_j, AddScalar(membership_j, st.start)),
      start |-> st.start + n]

\* One iteration of `for im, molecule in enumerate(atom_number)`, n being
\* num_atoms[im].
DTNNIter(st, im, n) ==
  LET membership == Repeat(Arange(n), n)
      membership_i == FlattenF(membership)
      membership_j == Flatten(membership)
  IN [atom_membership |-> Append(st.atom_membership, Repeat(im, n)),
      distance_membership_i |->
        Append(st.distance_membership_i, AddScalar(membership_i, st.start)),
      distance_membership_j |->
        Append(st.distance_membership_j, AddScalar(membership_j, st.start)),
      start |-> st.start + n]

RECURSIVE DTNNLoop(_, _, _)
DTNNLoop(st, im, num_atoms) ==
  IF im >= Len(num_atoms) THEN st
  ELSE DTNNLoop(DTNNIter(st, im, num_atoms[im + 1]), im + 1, num_atoms)

\* The index arrays of the returned feature list (atom_number and the
\* Gaussian-expanded distances are floating-point data and are left out).
compute_features_on_batch(X_b) ==
  LET num_atoms == [i \in 1..Len(X_b) |-> PySum(CoulombColumn(X_b[i]))]
      st == DTNNLoop(DTNNStart, 0, num_atoms)
  IN [atom_mem |-> Concatenate(st.atom_membership),
      dist_mem_i |-> Concatenate(st.distance_membership_i),
      dist_mem_j |-> Concatenate(st.distance_membership_j)]

\* ------------------------------------------------------------ generators
\* A generator object: p batches yielded so far, X_b the batch the last
\* yield was computed from, last the arrays it yielded, done once
\* StopIteration was raised.
GenStart == [p |-> 0, done |-> FALSE, X_b |-> <<>>, last |-> <<>>]

Datasets ==
  UNION {{ds \in [1..k -> Molecules] : \A i \in 1..k : ds[i].id = i - 1}
         : k \in 1..MaxMols}

TotalBatches == epochs * NumBatches(dataset, batch_size)

BatchIndex(p) == (p % NumBatches(dataset, batch_size)) + 1

\* No object constructed yet.
IdleObj ==
  [cls |-> "none", args |-> <<>>, warnings |-> <<>>, raised |-> "none",
   by |-> "", attrs |-> {}, dropout |-> <<>>, layers |-> <<>>,
   trims |-> <<>>, built |-> FALSE]

\* No forward pass made yet.
NotCalled == [called |-> FALSE, n_samples |-> 0, full |-> <<>>, rows |-> <<>>]

InitConfig ==
  /\ dataset \in Datasets
  /\ batch_size \in 1..MaxBatch
  /\ epochs \in 1..MaxEpochs
  /\ pad_batches \in BOOLEAN

Init ==
  /\ InitConfig
  /\ wv = GenStart
  /\ mp = GenStart
  /\ dt = GenStart
  /\ obj = IdleObj
  /\ out = NotCalled
  /\ dg = GenStart
  /\ gc = GenStart

\* next() on WeaveModel.default_generator: the next batch is featurised.
WeaveNext ==
  /\ ~wv.done
  /\ wv.p < TotalBatches
  /\ LET X_b == IterBatches(dataset, batch_size, pad_batches, BatchIndex(wv.p))
     IN wv' = [p |-> wv.p + 1, done |-> FALSE, X_b |-> X_b,
               last |-> WeaveInputs(X_b)]
  /\ UNCHANGED <<dataset, batch_size, epochs, pad_batches, mp, dt, obj, out, dg, gc>>

\* next() after the last batch of the last epoch: StopIteration.
WeaveStop ==
  /\ ~wv.done
  /\ wv.p = TotalBatches
  /\ wv' = [wv EXCEPT !.done = TRUE]
  /\ UNCHANGED <<dataset, batch_size, epochs, pad_batches, mp, dt, obj, out, dg, gc>>

\* next() on MPNNModel.default_generator: iterbatches is always asked for
\* unpadded batches, which pad_features then pads.
MPNNNext ==
  /\ ~mp.done
  /\ mp.p < TotalBatches
  /\ LET X_b == pad_features(batch_size,
                             IterBatches(dataset, batch_size, FALSE,
                                         BatchIndex(mp.p)))
     IN mp' = [p |-> mp.p + 1, done |-> FALSE, X_b |-> X_b,
               last |-> MPNNFeed(X_b)]
  /\ UNCHANGED <<dataset, batch_size, epochs, pad_batches, wv, dt, obj, out, dg, gc>>

MPNNStop ==
  /\ ~mp.done
  /\ mp.p = TotalBatches
  /\ mp' = [mp EXCEPT !.done = TRUE]
  /\ UNCHANGED <<dataset, batch_size, epochs, pad_batches, wv, dt, obj, out, dg, gc>>

Next == WeaveNext \/ WeaveStop \/ MPNNNext \/ MPNNStop

Spec == Init /\ [][Next]_vars

\* next() on DTNNModel.default_generator.
DTNNNext ==
  /\ ~dt.done
  /\ dt.p < TotalBatches
  /\ LET X_b == IterBatches(dataset, batch_size, pad_batches, BatchIndex(dt.p))
     IN dt' = [p |-> dt.p + 1, done |-> FALSE, X_b |-> X_b,
               last |-> compute_features_on_batch(X_b)]
  /\ UNCHANGED <<dataset, batch_size, epochs, pad_batches, wv, mp, obj, out, dg, gc>>

DTNNStop ==
  /\ ~dt.done
  /\ dt.p = TotalBatches
  /\ dt' = [dt EXCEPT !.done = TRUE]
  /\ UNCHANGED <<dataset, batch_size, epochs, pad_batches, wv, mp, obj, out, dg, gc>>

NextDTNN == DTNNNext \/ DTNNStop

SpecDTNN == Init /\ [][NextDTNN]_vars

\* ------------------------------------------------------- TrimGraphOutput
\* A tensor: its shape and its values in row-major order.
Tensor(shape, data) == [shape |-> shape, data |-> data]

\* np.array(k): a 0-d array
Scalar(k) == Tensor(<<>>, <<k>>)

\* tf.squeeze(t): every dimension of size 1 is removed
Squeeze(t) == Tensor(SelectSeq(t.shape, LAMBDA d : d /= 1), t.data)

\* seq[0:n] for n >= 0
PySlice0(seq, n) == SubSeq(seq, 1, Min(n, Len(seq)))

\* TrimGraphOutput.call(inputs): the slice bound is the squeezed second
\* input, which has to be a scalar.
TrimGraphOutputCall(inputs) ==
  LET n_samples == Squeeze(inputs[2])
  IN PySlice0(inputs[1], n_samples.data[1])

\* ---------------------------------------------------------- constructors
\* Constructor arguments.  Dropout probabilities are in percent; a dropout
\* argument is None (no value), a float (one value) or a list.
Modes == {"classification", "regression", "ranking"}

DropoutRates == {0, 50}

LayerSizes == {64, 128}

PyNone == [isSeq |-> FALSE, vals |-> <<>>]
PyFloat(d) == [isSeq |-> FALSE, vals |-> <<d>>]
PyList(l) == [isSeq |-> TRUE, vals |-> l]

SeqsUpTo(S, n) == UNION {[1..k -> S] : k \in 0..n}

Args(mode, uncertainty, dropout, graph_conv_layers) ==
  [mode |-> mode, uncertainty |-> uncertainty, dropout |-> dropout,
   graph_conv_layers |-> graph_conv_layers]

\* The object a constructor call leaves behind: the exception that ended
\* __init__ ("none" if it returned) and the statement that raised it, the
\* attributes assigned, self.dropout, the layer blocks and the
\* TrimGraphOutput applications built so far, and whether the model was
\* assembled and handed to the base class.
Result(raised, by, attrs, dropout, layers, trims, built) ==
  [raised |-> raised, by |-> by, attrs |-> attrs, dropout |-> dropout,
   layers |-> layers, trims |-> trims, built |-> built]

Block(kind, size, rate) == [kind |-> kind, size |-> size, rate |-> rate]

\* tf.keras.layers.Dropout(rate=d) is added only `if d > 0.0`
DropoutIfPositive(d) == IF d > 0 THEN <<d>> ELSE <<>>

\* WeaveModel.__init__
WeaveAttrs ==
  {"n_tasks", "n_atom_feat", "n_pair_feat", "n_hidden", "n_graph_feat",
   "mode", "n_classes"}

WeaveInputAttrs ==
  {"atom_features", "pair_features", "pair_split", "atom_split",
   "atom_to_pair"}

WeaveModelInit(a) ==
  IF a.mode \notin {"classification", "regression"}
  THEN Result("ValueError", "mode", {}, <<>>, <<>>, <<>>, FALSE)
  ELSE Result("none", "", WeaveAttrs \cup WeaveInputAttrs, <<>>,
              << Block("WeaveLayer", 0, <<>>), Block("WeaveLayer", 0, <<>>),
                 Block("Dense", 0, <<>>), Block("WeaveGather", 0, <<>>) >>,
              <<>>, TRUE)

\* DTNNModel.__init__
DTNNAttrs ==
  {"n_tasks", "n_embedding", "n_hidden", "n_distance", "distance_min",
   "distance_max", "step_size", "steps", "output_activation", "mode",
   "dropout"}

DTNNInputAttrs ==
  {"atom_number", "distance", "atom_membership", "distance_membership_i",
   "distance_membership_j"}

DTNNModelInitAnyMode(a) ==
  IF a.mode \notin {"classification", "regression"}
  THEN Result("ValueError", "mode", {}, <<>>, <<>>, <<>>, FALSE)
  ELSE LET d == a.dropout.vals[1]
       IN Result("none", "", DTNNAttrs \cup DTNNInputAttrs, <<d>>,
                 << Block("DTNNEmbedding", 0, DropoutIfPositive(d)),
                    Block("DTNNStep", 0, DropoutIfPositive(d)),
                    Block("DTNNStep", 0, DropoutIfPositive(d)),
                    Block("DTNNGather", 0, DropoutIfPositive(d)) >>,
                 <<>>, TRUE)

DTNNModelInit(a) ==
  IF a.mode \notin {"regression"}
  THEN Result("ValueError", "mode", {}, <<>>, <<>>, <<>>, FALSE)
  ELSE LET d == a.dropout.vals[1]
       IN Result("none", "", DTNNAttrs \cup DTNNInputAttrs, <<d>>,
                 << Block("DTNNEmbedding", 0, DropoutIfPositive(d)),
                    Block("DTNNStep", 0, DropoutIfPositive(d)),
                    Block("DTNNStep", 0, DropoutIfPositive(d)),
                    Block("DTNNGather", 0, DropoutIfPositive(d)) >>,
                 <<>>, TRUE)

\* DAGModel.__init__
DAGAttrs ==
  {"n_tasks", "max_atoms", "n_atom_feat", "n_graph_feat", "n_outputs",
   "layer_sizes", "layer_sizes_gather", "dropout", "mode", "n_classes",
   "uncertainty"}

DAGInputAttrs ==
  {"atom_features", "parents", "calculation_orders", "calculation_masks",
   "membership", "n_atoms"}

\* `dropout == 0.0`: false for None
EqualsZero(dropout) == dropout = PyFloat(0)

DAGModelInit(a) ==
  IF a.mode \notin {"classification", "regression"}
  THEN Result("ValueError", "mode", {}, <<>>, <<>>, <<>>, FALSE)
  ELSE IF a.uncertainty /\ a.mode /= "regression"
  THEN Result("ValueError", "uncertainty mode", DAGAttrs, a.dropout.vals,
              <<>>, <<>>, FALSE)
  ELSE IF a.uncertainty /\ EqualsZero(a.dropout)
  THEN Result("ValueError", "uncertainty dropout", DAGAttrs, a.dropout.vals,
              <<>>, <<>>, FALSE)
  ELSE Result("none", "", DAGAttrs \cup DAGInputAttrs, a.dropout.vals,
              << Block("DAGLayer", 0, a.dropout.vals),
                 Block("DAGGather", 0, a.dropout.vals) >>,
              <<>>, TRUE)

\* GraphConvModel.__init__
GraphConvAttrs ==
  {"n_tasks", "mode", "dense_layer_size", "graph_conv_layers",
   "number_atom_features", "n_classes", "uncertainty"}

GraphConvInputAttrs ==
  {"atom_features", "degree_slice", "membership", "n_samples", "deg_adjs",
   "neural_fingerprint"}

NormalizeDropoutOffByOne(dropout, graph_conv_layers) ==
  IF ~dropout.isSeq
  THEN Repeat(dropout.vals[1], Len(graph_conv_layers))
  ELSE dropout.vals

\* `if not isinstance(dropout, collections.Sequence): dropout = [dropout] * (n+1)`
NormalizeDropout(dropout, graph_conv_layers) ==
  IF ~dropout.isSeq
  THEN Repeat(dropout.vals[1], Len(graph_conv_layers) + 1)
  ELSE dropout.vals

\* `for layer_size, dropout in zip(self.graph_conv_layers, self.dropout)`
\* followed by the dense layer, which uses self.dropout[-1]
GraphConvBlocks(graph_conv_layers, dropout) ==
  [i \in 1..Min(Len(graph_conv_layers), Len(dropout)) |->
     Block("GraphConv", graph_conv_layers[i], DropoutIfPositive(dropout[i]))]
  \o << Block("Dense", 0, DropoutIfPositive(dropout[Len(dropout)])),
        Block("GraphGather", 0, <<>>) >>

\* The TrimGraphOutput layers of the output head: each is applied to
\* [tensor, self.n_samples].
GraphConvTrims(a) ==
  IF a.mode = "classification" THEN <<"n_samples">>
  ELSE IF a.uncertainty THEN <<"n_samples", "n_samples">>
  ELSE <<"n_samples">>

GraphConvModelInit(a) ==
  LET dropout == NormalizeDropout(a.dropout, a.graph_conv_layers)
  IN IF a.mode \notin {"classification", "regression"}
     THEN Result("ValueError", "mode", {}, <<>>, <<>>, <<>>, FALSE)
     ELSE IF Len(dropout) /= Len(a.graph_conv_layers) + 1
     THEN Result("ValueError", "dropout length", GraphConvAttrs, <<>>,
                 <<>>, <<>>, FALSE)
     ELSE IF a.uncertainty /\ a.mode /= "regression"
     THEN Result("ValueError", "uncertainty mode",
                 GraphConvAttrs \cup {"dropout"}, dropout, <<>>, <<>>, FALSE)
     ELSE IF a.uncertainty /\ \E i \in 1..Len(dropout) : dropout[i] = 0
     THEN Result("ValueError", "uncertainty dropout",
                 GraphConvAttrs \cup {"dropout"}, dropout, <<>>, <<>>, FALSE)
     ELSE Result("none", "",
                 GraphConvAttrs \cup {"dropout"} \cup GraphConvInputAttrs,
                 dropout, GraphConvBlocks(a.graph_conv_layers, dropout),
                 GraphConvTrims(a), TRUE)

\* MPNNModel.__init__ and build_graph.  The dropout argument is only
\* checked; it is neither stored nor used by build_graph.  build_graph
\* reaches `TrimGraphOutput([tensor, weights])` in either mode: the list is
\* passed to TrimGraphOutput.__init__(self, **kwargs) as a positional
\* argument, which Python rejects with TypeError.
MPNNAttrs ==
  {"n_tasks", "n_atom_feat", "n_pair_feat", "n_hidden", "T", "M", "mode",
   "n_classes", "uncertainty"}

MPNNInputAttrs ==
  {"atom_features", "pair_features", "atom_split", "atom_to_pair"}

MPNNModelInit(a) ==
  IF a.mode \notin {"classification", "regression"}
  THEN Result("ValueError", "mode", {}, <<>>, <<>>, <<>>, FALSE)
  ELSE IF a.uncertainty /\ a.mode /= "regression"
  THEN Result("ValueError", "uncertainty mode", MPNNAttrs, <<>>, <<>>, <<>>,
              FALSE)
  ELSE IF a.uncertainty /\ EqualsZero(a.dropout)
  THEN Result("ValueError", "uncertainty dropout", MPNNAttrs, <<>>, <<>>,
              <<>>, FALSE)
  ELSE Result("TypeError", "TrimGraphOutput", MPNNAttrs \cup MPNNInputAttrs,
              <<>>,
              << Block("MessagePassing", 0, <<>>), Block("Dense", 0, <<>>),
                 Block("SetGather", 0, <<>>), Block("Dense", 0, <<>>) >>,
              <<"weights">>, FALSE)

\* ------------------------------------------------------ deprecation shims
Renamed ==
  [GraphConvTensorGraph |-> "GraphConvModel", WeaveTensorGraph |-> "WeaveModel",
   DTNNTensorGraph |-> "DTNNModel", DAGTensorGraph |-> "DAGModel",
   MPNNTensorGraph |-> "MPNNModel"]

\* warnings.warn(TENSORGRAPH_DEPRECATION.format(old, new), FutureWarning)
Warn(old) ==
  << [category |-> "FutureWarning", old |-> old, new |-> Renamed[old]] >>

\* super(X, self).__init__(*args, **kwargs) with X the class AFTER the
\* renamed class in the method resolution order: the base initialiser
\* (KerasModel, TensorGraph) receives the renamed class's arguments and the
\* renamed class's __init__ does not run.  base is what the base initialiser
\* does with those arguments.
SkippingShimInit(a, base) ==
  Result(base, IF base = "none" THEN "" ELSE "base __init__", {}, <<>>,
         <<>>, <<>>, FALSE)

\* What the base initialiser may do when handed another class's arguments.
BaseOutcomes == {"none", "TypeError"}

\* --------------------------------------------------- constructor actions
NoWarnings == <<>>

Object(cls, a, warnings, r) ==
  [cls |-> cls, args |-> a, warnings |-> warnings, raised |-> r.raised,
   by |-> r.by, attrs |-> r.attrs, dropout |-> r.dropout,
   layers |-> r.layers, trims |-> r.trims, built |-> r.built]

WeaveArgs == {Args(m, FALSE, PyFloat(0), <<>>) : m \in Modes}

DTNNArgs == {Args(m, FALSE, PyFloat(d), <<>>) : m \in Modes, d \in DropoutRates}

DAGArgs ==
  {Args(m, u, d, <<>>) :
     m \in Modes, u \in BOOLEAN,
     d \in {PyNone} \cup {PyFloat(x) : x \in DropoutRates}}

MPNNArgs ==
  {Args(m, u, PyFloat(d), <<>>) :
     m \in Modes, u \in BOOLEAN, d \in DropoutRates}

GraphConvArgs ==
  {Args(m, u, d, g) :
     m \in Modes, u \in BOOLEAN,
     d \in {PyFloat(x) : x \in DropoutRates}
           \cup {PyList(l) : l \in SeqsUpTo(DropoutRates, MaxLayers + 2)},
     g \in SeqsUpTo(LayerSizes, MaxLayers)}

InitCtor ==
  /\ dataset = <<>>
  /\ batch_size \in 1..MaxBatch
  /\ epochs = 1
  /\ pad_batches = TRUE
  /\ wv = GenStart
  /\ mp = GenStart
  /\ dt = GenStart
  /\ obj = IdleObj
  /\ out = NotCalled
  /\ dg = GenStart
  /\ gc = GenStart

ctorOthers ==
  <<dataset, batch_size, epochs, pad_batches, wv, mp, dt, out, dg, gc>>

NewWeaveModel ==
  /\ obj = IdleObj
  /\ \E a \in WeaveArgs :
       obj' = Object("WeaveModel", a, NoWarnings, WeaveModelInit(a))
  /\ UNCHANGED ctorOthers

NewDTNNModel ==
  /\ obj = IdleObj
  /\ \E a \in DTNNArgs :
       obj' = Object("DTNNModel", a, NoWarnings, DTNNModelInit(a))
  /\ UNCHANGED ctorOthers

NewDAGModel ==
  /\ obj = IdleObj
  /\ \E a \in DAGArgs :
       obj' = Object("DAGModel", a, NoWarnings, DAGModelInit(a))
  /\ UNCHANGED ctorOthers

NewGraphConvModel ==
  /\ obj = IdleObj
  /\ \E a \in GraphConvArgs :
       obj' = Object("GraphConvModel", a, NoWarnings, GraphConvModelInit(a))
  /\ UNCHANGED ctorOthers

NewMPNNModel ==
  /\ obj = IdleObj
  /\ \E a \in MPNNArgs :
       obj' = Object("MPNNModel", a, NoWarnings, MPNNModelInit(a))
  /\ UNCHANGED ctorOthers

\* GraphConvTensorGraph.__init__: warn, then
\* super(GraphConvTensorGraph, self).__init__, i.e. GraphConvModel.__init__
NewGraphConvTensorGraph ==
  /\ obj = IdleObj
  /\ \E a \in GraphConvArgs :
       obj' = Object("GraphConvTensorGraph", a, Warn("GraphConvTensorGraph"), GraphConvModelInit(a))
  /\ UNCHANGED ctorOthers

\* WeaveTensorGraph.__init__: warn, then super(WeaveModel, self).__init__
NewWeaveTensorGraph ==
  /\ obj = IdleObj
  /\ \E a \in WeaveArgs : \E base \in BaseOutcomes :
       obj' = Object("WeaveTensorGraph", a, Warn("WeaveTensorGraph"), SkippingShimInit(a, base))
  /\ UNCHANGED ctorOthers

\* DTNNTensorGraph.__init__: warn, then super(DTNNModel, self).__init__
NewDTNNTensorGraph ==
  /\ obj = IdleObj
  /\ \E a \in DTNNArgs : \E base \in BaseOutcomes :
       obj' = Object("DTNNTensorGraph", a, Warn("DTNNTensorGraph"), SkippingShimInit(a, base))
  /\ UNCHANGED ctorOthers

\* DAGTensorGraph.__init__: warn, then super(DAGModel, self).__init__
NewDAGTensorGraph ==
  /\ obj = IdleObj
  /\ \E a \in DAGArgs : \E base \in BaseOutcomes :
       obj' = Object("DAGTensorGraph", a, Warn("DAGTensorGraph"), SkippingShimInit(a, base))
  /\ UNCHANGED ctorOthers

\* MPNNTensorGraph.__init__: warn, then super(MPNNModel, self).__init__
NewMPNNTensorGraph ==
  /\ obj = IdleObj
  /\ \E a \in MPNNArgs : \E base \in BaseOutcomes :
       obj' = Object("MPNNTensorGraph", a, Warn("MPNNTensorGraph"), SkippingShimInit(a, base))
  /\ UNCHANGED ctorOthers

\* A forward pass of a built model on a batch of n_samples molecules:
\* GraphGather puts out batch_size rows, and every TrimGraphOutput layer of
\* the head is called on [rows, n_samples].
CallModel ==
  /\ obj.built
  /\ Len(obj.trims) > 0
  /\ ~out.called
  /\ \E n_samples \in 0..batch_size :
       LET full == [i \in 1..batch_size |-> <<i - 1>>]
       IN out' = [called |-> TRUE, n_samples |-> n_samples, full |-> full,
                  rows |-> [s \in 1..Len(obj.trims) |->
                              TrimGraphOutputCall(<<full, Scalar(n_samples)>>)]]
  /\ UNCHANGED <<dataset, batch_size, epochs, pad_batches, wv, mp, dt, obj, dg, gc>>

NextCtor ==
  \/ NewWeaveModel
  \/ NewDTNNModel
  \/ NewDAGModel
  \/ NewGraphConvModel
  \/ NewMPNNModel
  \/ NewGraphConvTensorGraph
  \/ NewWeaveTensorGraph
  \/ NewDTNNTensorGraph
  \/ NewDAGTensorGraph
  \/ NewMPNNTensorGraph
  \/ CallModel

SpecCtor == InitCtor /\ [][NextCtor]_vars

\* ------------------------------------------- DAGModel.default_generator
\* self.max_atoms: the size every parents array is padded to by the
\* featuriser, and the value it pads with.
max_atoms == MaxAtoms

\* The calculation orders of the DAG rooted at atom r of a molecule with n
\* atoms: every atom once, the root last.
Orders(n, r) ==
  {o \in [1..n -> 0..(n - 1)] :
     /\ o[n] = r
     /\ \A i \in 1..n : \A j \in 1..n : o[i] = o[j] => i = j}

\* One (max_atoms, max_atoms) parents array: column 0 is the calculation
\* order; what follows the order, and the parent columns, which the
\* generator passes on untouched, is padding.
ParentsArray(order) ==
  [i \in 1..max_atoms |->
     [j \in 1..max_atoms |->
        IF j = 1 /\ i <= Len(order) THEN order[i] ELSE max_atoms]]

\* mol.parents: one parents array per atom, the atom being the root.
ParentsOf(n) ==
  {ps \in [1..n -> {ParentsArray(o) : o \in UNION {Orders(n, r) : r \in 0..(n - 1)}}] :
     \A r \in 1..n : ps[r][n][1] = r - 1}

\* Molecules featurised for the DAG model have at least one atom.
DAGMolecules ==
  UNION {[id : 0..(MaxMols - 1), n_atoms : {n}, parents : ParentsOf(n)]
         : n \in 1..MaxAtoms}

DAGDatasets ==
  UNION {{ds \in [1..k -> DAGMolecules] : \A i \in 1..k : ds[i].id = i - 1}
         : k \in 1..MaxMols}

RECURSIVE SumInts(_)
SumInts(s) == IF Len(s) = 0 THEN 0 ELSE s[1] + SumInts(Tail(s))

\* np.cumsum(s)
Cumsum(s) == [i \in 1..Len(s) |-> SumInts(SubSeq(s, 1, i))]

\* [0] + list(np.cumsum(atoms_per_mol)[:-1])
StartIndex(atoms_per_mol) ==
  <<0>> \o SubSeq(Cumsum(atoms_per_mol), 1, Len(atoms_per_mol) - 1)

\* np.array(parents)[:, :, 0]
FirstColumn(parents) ==
  [r \in 1..Len(parents) |-> [i \in 1..Len(parents[r]) |-> parents[r][i][1]]]

\* np.array(A - c, dtype=bool): True where the difference is not 0
NonZeroMinus(A, c) ==
  [r \in 1..Len(A) |-> [i \in 1..Len(A[r]) |-> A[r][i] - c /= 0]]

\* A + c, elementwise on a 2-d array
AddScalar2(A, c) == [r \in 1..Len(A) |-> AddScalar(A[r], c)]

DAGStart ==
  [atoms_all |-> <<>>, parents_all |-> <<>>, calculation_orders |-> <<>>,
   calculation_masks |-> <<>>, membership |-> <<>>]

DAGIterMaskAfterOffset(st, idm, mol, atoms_per_mol, start_index) ==
  LET parents == mol.parents
      calculation_index == FirstColumn(parents)
      mask == NonZeroMinus(AddScalar2(calculation_index, start_index[idm + 1]),
                           max_atoms)
  IN [atoms_all |-> Append(st.atoms_all, get_atom_features(mol)),
      parents_all |-> st.parents_all \o parents,
      calculation_orders |->
        Append(st.calculation_orders,
               AddScalar2(calculation_index, start_index[idm + 1])),
      calculation_masks |-> Append(st.calculation_masks, mask),
      membership |-> st.membership \o Repeat(idm, atoms_per_mol[idm + 1])]

\* One iteration of `for idm, mol in enumerate(X_b)`.
DAGIter(st, idm, mol, atoms_per_mol, start_index) ==
  LET parents == mol.parents
      calculation_index == FirstColumn(parents)
      mask == NonZeroMinus(calculation_index, max_atoms)
  IN [atoms_all |-> Append(st.atoms_all, get_atom_features(mol)),
      parents_all |-> st.parents_all \o parents,
      calculation_orders |->
        Append(st.calculation_orders,
               AddScalar2(calculation_index, start_index[idm + 1])),
      calculation_masks |-> Append(st.calculation_masks, mask),
      membership |-> st.membership \o Repeat(idm, atoms_per_mol[idm + 1])]

RECURSIVE DAGLoop(_, _, _, _, _)
DAGLoop(st, idm, X_b, atoms_per_mol, start_index) ==
  IF idm >= Len(X_b) THEN st
  ELSE DAGLoop(DAGIter(st, idm, X_b[idm + 1], atoms_per_mol, start_index),
               idm + 1, X_b, atoms_per_mol, start_index)

\* The list of arrays yielded for the batch X_b.
DAGInputs(X_b) ==
  LET atoms_per_mol == [i \in 1..Len(X_b) |-> get_num_atoms(X_b[i])]
      n_atoms == SumInts(atoms_per_mol)
      start_index == StartIndex(atoms_per_mol)
      st == DAGLoop(DAGStart, 0, X_b, atoms_per_mol, start_index)
  IN [atoms_all |-> Concatenate(st.atoms_all),
      parents_all |-> st.parents_all,
      calculation_orders |-> Concatenate(st.calculation_orders),
      calculation_masks |-> Concatenate(st.calculation_masks),
      membership |-> st.membership,
      n_atoms |-> n_atoms]

InitDAG ==
  /\ dataset \in DAGDatasets
  /\ batch_size \in 1..MaxBatch
  /\ epochs \in 1..MaxEpochs
  /\ pad_batches \in BOOLEAN
  /\ wv = GenStart
  /\ mp = GenStart
  /\ dt = GenStart
  /\ obj = IdleObj
  /\ out = NotCalled
  /\ dg = GenStart
  /\ gc = GenStart

\* next() on DAGModel.default_generator.
DAGNext ==
  /\ ~dg.done
  /\ dg.p < TotalBatches
  /\ LET X_b == IterBatches(dataset, batch_size, pad_batches, BatchIndex(dg.p))
     IN dg' = [p |-> dg.p + 1, done |-> FALSE, X_b |-> X_b,
               last |-> DAGInputs(X_b)]
  /\ UNCHANGED <<dataset, batch_size, epochs, pad_batches, wv, mp, dt, obj, out, gc>>

DAGStop ==
  /\ ~dg.done
  /\ dg.p = TotalBatches
  /\ dg' = [dg EXCEPT !.done = TRUE]
  /\ UNCHANGED <<dataset, batch_size, epochs, pad_batches, wv, mp, dt, obj, out, gc>>

NextDAG == DAGNext \/ DAGStop

SpecDAG == InitDAG /\ [][NextDAG]_vars

\* --------------------------------------- GraphConvModel.default_generator
\* number_atom_features, at its default
number_atom_features == 75

\* The inputs the model is built on, in the order given to tf.keras.Model:
\* atom_features, degree_slice, membership, n_samples and self.deg_adjs, one
\* Input(shape=(i + 1,)) for each i in range(0, 10 + 1).  A shape leaves out
\* the leading (row) dimension.
Declared(name, shape) == [name |-> name, shape |-> shape]

GraphConvDeclaredInputs ==
  << Declared("atom_features", <<number_atom_features>>),
     Declared("degree_slice", <<2>>),
     Declared("membership", <<>>),
     Declared("n_samples", <<>>) >>
  \o [k \in 1..(10 + 1) |-> Declared("deg_adj", <<(k - 1) + 1>>)]

\* ConvMol.agglomerate_mols keeps one adjacency list per degree
\* 0..MaxDegree.
MaxDegree == 10

\* Atoms of degree d in a molecule, molecules being chains of atoms.
DegreeCount(mol, d) ==
  IF mol.n_atoms = 1 THEN (IF d = 0 THEN 1 ELSE 0)
  ELSE IF mol.n_atoms >= 2
       THEN (IF d = 1 THEN 2 ELSE IF d = 2 THEN mol.n_atoms - 2 ELSE 0)
       ELSE 0

RECURSIVE BatchDegreeCount(_, _)
BatchDegreeCount(X_b, d) ==
  IF Len(X_b) = 0 THEN 0
  ELSE DegreeCount(X_b[1], d) + BatchDegreeCount(Tail(X_b), d)

RECURSIVE BatchAtoms(_)
BatchAtoms(X_b) ==
  IF Len(X_b) = 0 THEN 0 ELSE get_num_atoms(X_b[1]) + BatchAtoms(Tail(X_b))

\* An array, by name and shape.
Array(name, shape) == [name |-> name, shape |-> shape]

\* ConvMol.agglomerate_mols(X_b), by the shapes of its arrays:
\* deg_adj_lists[d + 1] is the adjacency list of degree d, one row of d
\* neighbours per atom of that degree.
agglomerate_mols(X_b) ==
  [atom_features |->
     Array("atom_features", <<BatchAtoms(X_b), number_atom_features>>),
   deg_slice |-> Array("degree_slice", <<MaxDegree + 1, 2>>),
   membership |-> Array("membership", <<BatchAtoms(X_b)>>),
   deg_adj_lists |->
     [i \in 1..(MaxDegree + 1) |->
        Array("deg_adj", <<BatchDegreeCount(X_b, i - 1), i - 1>>)]]

\* `for i in range(1, len(lists)): inputs.append(lists[i])`
RECURSIVE AppendFrom(_, _, _)
AppendFrom(inputs, lists, i) ==
  IF i >= Len(lists) THEN inputs
  ELSE AppendFrom(Append(inputs, lists[i + 1]), lists, i + 1)

\* What is yielded for the batch X_b: the inputs list, and the value held
\* by its n_samples array.
GraphConvInputs(X_b) ==
  LET multiConvMol == agglomerate_mols(X_b)
      n_samples == Len(X_b)
      inputs == << multiConvMol.atom_features, multiConvMol.deg_slice,
                   multiConvMol.membership, Array("n_samples", <<>>) >>
  IN [inputs |-> AppendFrom(inputs, multiConvMol.deg_adj_lists, 1),
      n_samples |-> n_samples]

\* next() on GraphConvModel.default_generator.
GraphConvNext ==
  /\ ~gc.done
  /\ gc.p < TotalBatches
  /\ LET X_b == IterBatches(dataset, batch_size, pad_batches, BatchIndex(gc.p))
     IN gc' = [p |-> gc.p + 1, done |-> FALSE, X_b |-> X_b,
               last |-> GraphConvInputs(X_b)]
  /\ UNCHANGED <<dataset, batch_size, epochs, pad_batches, wv, mp, dt, obj, out, dg>>

GraphConvStop ==
  /\ ~gc.done
  /\ gc.p = TotalBatches
  /\ gc' = [gc EXCEPT !.done = TRUE]
  /\ UNCHANGED <<dataset, batch_size, epochs, pad_batches, wv, mp, dt, obj, out, dg>>

NextGraphConv == GraphConvNext \/ GraphConvStop

SpecGraphConv == Init /\ [][NextGraphConv]_vars

\* ------------------------------------------------ batch index properties
RECURSIVE SumAtoms(_)
SumAtoms(X) == IF Len(X) = 0 THEN 0 ELSE X[1].n_atoms + SumAtoms(Tail(X))

RECURSIVE SumPairs(_)
SumPairs(X) ==
  IF Len(X) = 0 THEN 0 ELSE X[1].n_atoms * X[1].n_atoms + SumPairs(Tail(X))

\* Atoms (pairs) of the molecules before batch position im (0-based).
AtomsBefore(X, im) == SumAtoms(SubSeq(X, 1, im))
PairsBefore(X, im) == SumPairs(SubSeq(X, 1, im))

Count(s, v) == Cardinality({i \in 1..Len(s) : s[i] = v})

NonDecreasing(s) == \A i \in 1..(Len(s) - 1) : s[i] <= s[i + 1]

\* s lists batch position im exactly n_im times, in batch order, so that
\* entry a is the position of the molecule owning global atom a.
IsMembership(s, X) ==
  /\ Len(s) = SumAtoms(X)
  /\ NonDecreasing(s)
  /\ \A im \in 0..(Len(X) - 1) : Count(s, im) = X[im + 1].n_atoms
  /\ \A a \in 1..Len(s) :
       /\ s[a] \in 0..(Len(X) - 1)
       /\ AtomsBefore(X, s[a]) <= a - 1
       /\ a - 1 < AtomsBefore(X, s[a]) + X[s[a] + 1].n_atoms

\* rows enumerates, molecule after molecule, every ordered pair
\* (start_im + a, start_im + b) once, a outer and b inner.
IsRowMajorPairs(rows, X) ==
  /\ Len(rows) = SumPairs(X)
  /\ \A im \in 0..(Len(X) - 1) :
       LET n == X[im + 1].n_atoms
       IN \A a \in 0..(n - 1) : \A b \in 0..(n - 1) :
            rows[PairsBefore(X, im) + a * n + b + 1]
              = <<AtomsBefore(X, im) + a, AtomsBefore(X, im) + b>>
  /\ \A r \in 1..Len(rows) :
       /\ rows[r][1] \in 0..(SumAtoms(X) - 1)
       /\ rows[r][2] \in 0..(SumAtoms(X) - 1)
       /\ \E im \in 0..(Len(X) - 1) :
            /\ rows[r][1] \in AtomsBefore(X, im)..(AtomsBefore(X, im + 1) - 1)
            /\ rows[r][2] \in AtomsBefore(X, im)..(AtomsBefore(X, im + 1) - 1)

\* C1: in every batch yielded by WeaveModel.default_generator, atom_split
\* has one entry per atom of the batch, is non-decreasing, holds batch
\* position im exactly n_im times, and entry a is the position of the
\* molecule that owns global atom a.
C1_AtomSplitIsMembership ==
  wv.p > 0 => IsMembership(wv.last.atom_split, wv.X_b)

C1_Witness ==
  /\ wv.p > 0
  /\ Len(wv.X_b) = 2
  /\ wv.X_b[1].n_atoms = 0
  /\ wv.X_b[2].n_atoms = 2
  /\ wv.last.atom_split = <<1, 1>>

\* C2: in every batch yielded by WeaveModel.default_generator, atom_to_pair
\* has sum(n_im^2) rows; the rows of molecule im are the ordered pairs
\* (start_im + a, start_im + b) in row-major order; every index is below the
\* total atom count and no row pairs atoms of two molecules.
C2_AtomToPairRowMajor ==
  wv.p > 0 => IsRowMajorPairs(wv.last.atom_to_pair, wv.X_b)

C2_Witness ==
  /\ wv.p > 0
  /\ Len(wv.X_b) = 2
  /\ wv.X_b[1].n_atoms = 1
  /\ wv.X_b[2].n_atoms = 2
  /\ wv.last.atom_to_pair = << <<0, 0>>, <<1, 1>>, <<1, 2>>, <<2, 1>>, <<2, 2>> >>

\* The four arrays both generators yield agree.
SameArrays(w, m) ==
  /\ w.atom_feat = m.atom_feat
  /\ w.pair_feat = m.pair_feat
  /\ w.atom_split = m.atom_split
  /\ w.atom_to_pair = m.atom_to_pair

C9_WeaveArraysConsistent ==
  wv.p > 0 =>
    LET y == wv.last
        X == wv.X_b
    IN /\ Len(y.pair_split) = Len(y.atom_to_pair)
       /\ \A r \in 1..Len(y.pair_split) : y.pair_split[r] = y.atom_to_pair[r][1]
       /\ NonDecreasing(y.pair_split)
       /\ \A im \in 0..(Len(X) - 1) :
            \A g \in AtomsBefore(X, im)..(AtomsBefore(X, im + 1) - 1) :
              Count(y.pair_split, g) = X[im + 1].n_atoms
       /\ Len(y.pair_feat) = Len(y.atom_to_pair)
       /\ Len(y.pair_feat) = SumPairs(X)
       /\ Len(y.atom_feat) = Len(y.atom_split)
       /\ Len(y.atom_feat) = SumAtoms(X)

C9_Witness ==
  /\ wv.p > 0
  /\ Len(wv.X_b) = 2
  /\ wv.X_b[1].n_atoms = 2
  /\ wv.X_b[2].n_atoms = 1
  /\ wv.last.pair_split = <<0, 0, 1, 1, 2>>
  /\ Len(wv.last.pair_feat) = 5
  /\ Len(wv.last.atom_feat) = 3

\* C10: DTNNModel.compute_features_on_batch lists batch position im exactly
\* n_im times in atom_membership, in batch order, and distance_membership_i
\* and distance_membership_j, read together, enumerate for each molecule
\* every ordered pair (start_im + a, start_im + b) once in row-major order,
\* never joining atoms of two molecules, all indices below the atom total.
C10_DTNNIndexArrays ==
  dt.p > 0 =>
    LET f == dt.last
        X == dt.X_b
    IN /\ IsMembership(f.atom_mem, X)
       /\ Len(f.dist_mem_i) = SumPairs(X)
       /\ Len(f.dist_mem_j) = SumPairs(X)
       /\ IsRowMajorPairs([r \in 1..SumPairs(X) |->
                             <<f.dist_mem_i[r], f.dist_mem_j[r]>>], X)

C10_Witness ==
  /\ dt.p > 0
  /\ Len(dt.X_b) = 2
  /\ dt.X_b[1].n_atoms = 1
  /\ dt.X_b[2].n_atoms = 2
  /\ dt.last.atom_mem = <<0, 1, 1>>
  /\ dt.last.dist_mem_i = <<0, 1, 1, 2, 2>>
  /\ dt.last.dist_mem_j = <<0, 1, 2, 1, 2>>

\* -------------------------------------------------- constructor properties
DirectClasses ==
  {"WeaveModel", "DTNNModel", "DAGModel", "GraphConvModel", "MPNNModel"}

AcceptedModes(cls) ==
  IF cls = "DTNNModel" THEN {"regression"}
  ELSE {"classification", "regression"}

\* C4: TrimGraphOutput.call on [out, n_samples] returns the first n_samples
\* rows of out, in order and unchanged, and everywhere the layer is applied
\* in the file its second input is that sample count.
C4_TrimToSampleCount ==
  /\ \A s \in 1..Len(obj.trims) : obj.trims[s] = "n_samples"
  /\ obj.raised /= "TypeError" \/ obj.by /= "TrimGraphOutput"
  /\ out.called =>
       \A s \in 1..Len(out.rows) :
         /\ Len(out.rows[s]) = out.n_samples
         /\ \A r \in 1..out.n_samples : out.rows[s][r] = out.full[r]

\* C5: constructing one of the five models with a mode it does not accept
\* raises ValueError before any attribute is set and before any layer is
\* built; with an accepted mode the mode check raises nothing.
C5_ModeValidation ==
  obj.cls \in DirectClasses =>
    /\ obj.args.mode \notin AcceptedModes(obj.cls) =>
         /\ obj.raised = "ValueError"
         /\ obj.by = "mode"
         /\ obj.attrs = {}
         /\ obj.layers = <<>>
         /\ ~obj.built
    /\ obj.args.mode \in AcceptedModes(obj.cls) => obj.by /= "mode"

C5_Witness ==
  /\ obj.cls = "DTNNModel"
  /\ obj.args.mode = "classification"
  /\ obj.raised = "ValueError"
  /\ obj.attrs = {}

\* Dropout is included: a positive probability (for GraphConvModel, in
\* every entry of the argument).
DropoutIncluded(dropout) ==
  /\ Len(dropout.vals) > 0
  /\ \A i \in 1..Len(dropout.vals) : dropout.vals[i] > 0

\* C6: for DAGModel, GraphConvModel and MPNNModel, construction with
\* uncertainty=True raises ValueError unless mode is 'regression' and
\* dropout is included; no model with uncertainty=True is built without
\* dropout being applied, also when DAGModel's dropout is left at None.
C6_UncertaintyNeedsDropout ==
  (obj.cls \in {"DAGModel", "GraphConvModel", "MPNNModel"}
     /\ obj.args.uncertainty) =>
    /\ ~(obj.args.mode = "regression" /\ DropoutIncluded(obj.args.dropout))
         => obj.raised = "ValueError"
    /\ obj.built =>
         \A i \in 1..Len(obj.layers) :
           obj.layers[i].kind \in {"GraphConv", "Dense", "DAGLayer", "DAGGather"}
             => (Len(obj.layers[i].rate) = 1 /\ obj.layers[i].rate[1] > 0)

\* C7: GraphConvModel expands a single dropout value to
\* len(graph_conv_layers)+1 copies, rejects a dropout list of any other
\* length with ValueError, and after a successful construction self.dropout
\* has that length, its i-th value being used for the i-th convolution
\* layer and its last value for the dense layer.
C7_DropoutNormalised ==
  (obj.cls = "GraphConvModel" /\ obj.args.mode \in AcceptedModes(obj.cls)) =>
    LET n == Len(obj.args.graph_conv_layers)
        d == obj.args.dropout
        Used(rate, v) == IF v > 0 THEN rate = <<v>> ELSE rate = <<>>
    IN /\ ~d.isSeq =>
            /\ obj.by /= "dropout length"
            /\ Len(obj.dropout) = n + 1
            /\ \A i \in 1..(n + 1) : obj.dropout[i] = d.vals[1]
       /\ (d.isSeq /\ Len(d.vals) /= n + 1) =>
            /\ obj.raised = "ValueError"
            /\ obj.by = "dropout length"
            /\ ~obj.built
       /\ obj.built =>
            /\ Len(obj.dropout) = n + 1
            /\ \A i \in 1..n :
                 /\ obj.layers[i].kind = "GraphConv"
                 /\ obj.layers[i].size = obj.args.graph_conv_layers[i]
                 /\ Used(obj.layers[i].rate, obj.dropout[i])
            /\ obj.layers[n + 1].kind = "Dense"
            /\ Used(obj.layers[n + 1].rate, obj.dropout[n + 1])

C7_Witness ==
  /\ obj.cls = "GraphConvModel"
  /\ obj.built
  /\ obj.args.dropout = PyFloat(50)
  /\ obj.args.graph_conv_layers = <<64, 128>>
  /\ obj.dropout = <<50, 50, 50>>

\* The initialisation of the renamed class, run directly.
DirectInit(cls, a) ==
  CASE cls = "WeaveModel" -> WeaveModelInit(a)
    [] cls = "DTNNModel" -> DTNNModelInit(a)
    [] cls = "DAGModel" -> DAGModelInit(a)
    [] cls = "GraphConvModel" -> GraphConvModelInit(a)
    [] cls = "MPNNModel" -> MPNNModelInit(a)

\* C8: constructing a deprecated *TensorGraph class emits one FutureWarning
\* naming the old and the new class and then runs the initialisation of the
\* renamed class with the same arguments: same attributes, same argument
\* validation, same built model as constructing the renamed class directly.
C8_ShimsArePureRenames ==
  obj.cls \in DOMAIN Renamed =>
    /\ Len(obj.warnings) = 1
    /\ obj.warnings[1].category = "FutureWarning"
    /\ obj.warnings[1].old = obj.cls
    /\ obj.warnings[1].new = Renamed[obj.cls]
    /\ obj = Object(obj.cls, obj.args, obj.warnings,
                    DirectInit(Renamed[obj.cls], obj.args))

\* C11: in every batch yielded by DAGModel.default_generator, the
\* calculation-order rows of molecule idm are its local calculation indices
\* plus start_index[idm], the atom count of the molecules before it; a mask
\* entry is False exactly where the local index is the padding value
\* max_atoms, whatever the offset; and, every non-padding local index being
\* below the molecule's atom count, every entry whose mask is True is a
\* global atom index inside that molecule's own range.
C11_DAGOrdersAndMasks ==
  dg.p > 0 =>
    LET X == dg.X_b
        y == dg.last
    IN /\ Len(y.calculation_orders) = SumAtoms(X)
       /\ Len(y.calculation_masks) = SumAtoms(X)
       /\ \A idm \in 0..(Len(X) - 1) :
            LET mol == X[idm + 1]
                start == AtomsBefore(X, idm)
            IN \A r \in 1..mol.n_atoms : \A i \in 1..max_atoms :
                 LET local == mol.parents[r][i][1]
                     global == y.calculation_orders[start + r][i]
                     mask == y.calculation_masks[start + r][i]
                 IN /\ global = local + start
                    /\ mask = (local /= max_atoms)
                    /\ (\A q \in 1..mol.n_atoms : \A k \in 1..max_atoms :
                          mol.parents[q][k][1] /= max_atoms
                            => mol.parents[q][k][1] < mol.n_atoms)
                         => (mask => global \in start..(start + mol.n_atoms - 1))

\* The second molecule starts at offset 2 = max_atoms: its atom 0 becomes
\* global index 2 with mask True, its padding becomes 4 with mask False.
C11_Witness ==
  /\ dg.p > 0
  /\ Len(dg.X_b) = 2
  /\ dg.X_b[1].n_atoms = 2
  /\ dg.X_b[2].n_atoms = 1
  /\ dg.last.calculation_orders[3] = <<2, 4>>
  /\ dg.last.calculation_masks[3] = <<TRUE, FALSE>>

\* The shape of one sample of an array: the shape without its leading
\* dimension.
SampleShape(shape) == IF Len(shape) = 0 THEN <<>> ELSE Tail(shape)

\* C12: GraphConvModel declares the inputs atom_features, degree_slice,
\* membership, n_samples and 11 degree-adjacency inputs, the k-th
\* (k = 0..10) of width k+1; for every batch default_generator yields one
\* array per declared input, in the same order, n_samples being the number
\* of molecules in the batch and the k-th adjacency array the list of
\* degree k+1.
C12_GeneratorMatchesDeclaredInputs ==
  /\ Len(GraphConvDeclaredInputs) = 4 + 11
  /\ \A k \in 0..10 :
       GraphConvDeclaredInputs[4 + k + 1] = Declared("deg_adj", <<k + 1>>)
  /\ gc.p > 0 =>
       LET y == gc.last.inputs
       IN /\ Len(y) = Len(GraphConvDeclaredInputs)
          /\ \A i \in 1..Len(GraphConvDeclaredInputs) :
               /\ y[i].name = GraphConvDeclaredInputs[i].name
               /\ SampleShape(y[i].shape) = GraphConvDeclaredInputs[i].shape
          /\ gc.last.n_samples = Len(gc.X_b)
          /\ \A k \in 0..10 : y[4 + k + 1].shape[2] = k + 1

====
